---- MODULE Spec2Model ----
(***************************************************************************)
(* The Streamlit script src/app.py as a state machine.  One script run is  *)
(* the straight-line sequence  human_delay, get_trend_data, window         *)
(* selection, model.fit, make_future_dataframe/predict, past/future split, *)
(* rendering; a widget interaction starts the next run.  The process-wide  *)
(* st.cache_data cache of get_trend_data outlives the runs.                *)
(*                                                                         *)
(* Time is counted in ticks, TicksPerHour ticks to the hour, so that the   *)
(* provider's sub-hourly observations and pandas' hourly bins differ.      *)
(* pytrends and NeuralProphet are outside the repository: the provider's   *)
(* response and the model's outcome are inputs chosen in the actions.      *)
(***************************************************************************)
EXTENDS Integers, Sequences, FiniteSets

VARIABLES
    selected_site,    \* line 20: the selectbox value read by this run
    selected_days,    \* line 29: training_options[selected_period_label]
    pc,               \* position of the script run
    cache,            \* st.cache_data store of get_trend_data: keyword -> df
    raw,              \* the provider's response of this run (<<>> if none)
    data,             \* line 44
    data_small,       \* line 51
    forecast,         \* line 67
    combined,         \* line 80
    messages,         \* status messages the script has rendered in this run
    uncaught,         \* exception that left the script, "none" if none
    stages,           \* history: the stages this run has executed, in order
    provider_called,  \* history: this run called pytrends
    fetch_ok,         \* history: successful pytrends calls per keyword
    had_series,       \* history: the keyword was cached when this run began
    only_period       \* history: this run differs from the previous,
                      \* successfully fetched one in the period alone

vars == <<selected_site, selected_days, pc, cache, raw, data, data_small,
          forecast, combined, messages, uncaught, stages, provider_called,
          fetch_ok, had_series, only_period>>

-----------------------------------------------------------------------------
(* Bounds of the model *)

TicksPerHour == 2     \* resolution of the provider's timestamps
MaxGap == 1           \* longest run of hours the provider leaves out
ShortHours == 12      \* length of a short history the provider may return

(* Program constants *)

websites == <<"youtube.com", "instagram.com", "facebook.com", "amazon.com",
              "linkedin.com", "bitmesra.ac.in">>
training_options == {1, 3, 7}
TimeframeDays == 7
periods == 48

\* The session exercises the first two options of the selectbox.
Sites == {websites[1], websites[2]}

\* mutant: the period taken as hours, pd.Timedelta(hours=selected_days)
Timedelta_hours(days) == days * TicksPerHour

Hour == TicksPerHour
\* pd.Timedelta(days=...)
Timedelta(days) == days * 24 * Hour
TimeframeHours == TimeframeDays * 24

-----------------------------------------------------------------------------
(* Helpers over frames: a frame is a sequence of rows (records) *)

RECURSIVE SumSeq(_)
SumSeq(s) == IF s = <<>> THEN 0 ELSE Head(s) + SumSeq(Tail(s))

RECURSIVE GCD(_, _)
GCD(a, b) == IF b = 0 THEN a ELSE GCD(b, a % b)

Column(df, c) == [i \in 1..Len(df) |-> df[i][c]]

\* largest and smallest of s[lo..hi], by halving
RECURSIVE MaxIn(_, _, _)
MaxIn(s, lo, hi) ==
    IF lo = hi THEN s[lo]
    ELSE LET mid == (lo + hi) \div 2
             l == MaxIn(s, lo, mid)
             r == MaxIn(s, mid + 1, hi)
         IN  IF l >= r THEN l ELSE r

RECURSIVE MinIn(_, _, _)
MinIn(s, lo, hi) ==
    IF lo = hi THEN s[lo]
    ELSE LET mid == (lo + hi) \div 2
             l == MinIn(s, lo, mid)
             r == MinIn(s, mid + 1, hi)
         IN  IF l <= r THEN l ELSE r

\* Series.max() and Series.min() of a non-empty column
MaxOf(s) == MaxIn(s, 1, Len(s))
MinOf(s) == MinIn(s, 1, Len(s))

-----------------------------------------------------------------------------
(* The provider: pytrends' interest_over_time for timeframe 'now 7-d' *)

\* relative interest, an integer 0..100
Interest(t) == (t * 37) % 101

\* The provider's observations start at hour `first` of the timeframe, leave
\* out the `gap` hours before the last one, and are sub-hourly (one per tick)
\* in every sixth hour; elsewhere one observation per hour, off the hour mark.
Observed(t, first, gap) ==
    LET h == t \div Hour
        last == TimeframeHours - 1
    IN  /\ h >= first
        /\ ~(h >= last - gap /\ h < last)
        /\ \/ h % 6 = 5
           \/ t % Hour = h % Hour

RawOf(first, gap) ==
    LET ticks == [i \in 1..(TimeframeHours * Hour) |-> i - 1]
        seen(t) == Observed(t, first, gap)
        kept == SelectSeq(ticks, seen)
    IN  [i \in 1..Len(kept) |-> [date |-> kept[i], value |-> Interest(kept[i])]]

FirstHours == {0, TimeframeHours - ShortHours}

-----------------------------------------------------------------------------
(* get_trend_data, lines 36-39 *)

\* a float is kept exact, as the reduced fraction <<numerator, denominator>>;
\* NaN is 0/0
NaN == <<0, 0>>
Float(n, d) == LET g == GCD(n, d) IN <<n \div g, d \div g>>
Zero == <<0, 1>>

\* floor of a timestamp to the bin of resample('H')
FloorH(t) == (t \div Hour) * Hour

\* mutant: groupby(floor('H')).mean(), which has no row for an empty hour
ResampleMean_groupby(df) ==
    LET hours == [i \in 1..Len(df) |-> FloorH(df[i].ds)]
        firstof(i) == \A j \in 1..(i - 1) : hours[j] # hours[i]
        idx == SelectSeq([i \in 1..Len(df) |-> i], firstof)
        bin(h) == LET inbin(r) == FloorH(r.ds) = h
                  IN  Column(SelectSeq(df, inbin), "y")
    IN  [i \in 1..Len(idx) |-> [ds |-> hours[idx[i]],
                                y  |-> Float(SumSeq(bin(hours[idx[i]])),
                                             Len(bin(hours[idx[i]])))]]

\* .mean() of one bin: NaN for a bin without observations
Mean(vals) == IF vals = <<>> THEN NaN ELSE Float(SumSeq(vals), Len(vals))

\* .set_index('ds').resample('H').mean(): one row per hour from the first
\* observation's hour to the last observation's hour
ResampleMean(df) ==
    LET lo == FloorH(MinOf(Column(df, "ds")))
        hi == FloorH(MaxOf(Column(df, "ds")))
        n  == (hi - lo) \div Hour + 1
        bin(h) == LET inbin(r) == FloorH(r.ds) = h
                  IN  Column(SelectSeq(df, inbin), "y")
    IN  [i \in 1..n |-> [ds |-> lo + (i - 1) * Hour,
                         y  |-> Mean(bin(lo + (i - 1) * Hour))]]

\* mutant: the fillna(0) left out
FillNa_none(df) == df

\* .fillna(0)
FillNa(df) == [i \in 1..Len(df) |->
                 [ds |-> df[i].ds, y |-> IF df[i].y = NaN THEN Zero ELSE df[i].y]]

\* lines 37-38: rename date -> ds, keyword -> y, keep the two columns
Rename(r) == [i \in 1..Len(r) |-> [ds |-> r[i].date, y |-> r[i].value]]

\* lines 36-40 on a non-empty response
Resampled(r) == FillNa(ResampleMean(Rename(r)))

\* mutant: get_trend_data without the cache decorator
CacheStore_none(c, k, df) == c

\* @st.cache_data, line 32: the entry stored after a successful call
CacheStore(c, k, df) ==
    [x \in DOMAIN c \cup {k} |-> IF x = k THEN df ELSE c[x]]

-----------------------------------------------------------------------------
(* Lines 50-51: the training window *)

cutoff_date(df, days) == MaxOf(Column(df, "ds")) - Timedelta(days)

\* mutant: a strict comparison with the cutoff
SelectWindow_gt(df, days) ==
    LET cutoff == cutoff_date(df, days)
        keep(r) == r.ds > cutoff
    IN  SelectSeq(df, keep)

SelectWindow(df, days) ==
    LET cutoff == cutoff_date(df, days)
        keep(r) == r.ds >= cutoff
    IN  SelectSeq(df, keep)

-----------------------------------------------------------------------------
(* Lines 66-67: the frame the model predicts on *)

\* mutant: the future frame starting at the window's last timestamp
FutureDates_from_last(df) ==
    LET last_date == MaxOf(Column(df, "ds"))
    IN  [i \in 1..periods |-> last_date + (i - 1) * Hour]

\* the `periods` hourly timestamps after the last one of the window
FutureDates(df) ==
    LET last_date == MaxOf(Column(df, "ds"))
    IN  [i \in 1..periods |-> last_date + i * Hour]

\* make_future_dataframe + predict: yhat1 for the last nh rows of the window
\* (the in-sample rows the library returns) and for the future timestamps
Predict(df, nh, yhat) ==
    LET hist == SubSeq(Column(df, "ds"), Len(df) - nh + 1, Len(df))
        ds   == hist \o FutureDates(df)
    IN  [i \in 1..Len(ds) |-> [ds |-> ds[i], yhat1 |-> yhat]]

\* The library's in-sample rows: none (n_historic_predictions left at its
\* default) or one per row of the window.
HistoricChoices(df) == {0, Len(df)}
YhatLevels == {Zero, Float(21, 2)}

-----------------------------------------------------------------------------
(* Lines 74-83: past and future *)

PastLabel == "Past Forecast"
FutureLabel == "Future Forecast"

actual_end(df) == MaxOf(Column(df, "ds"))

\* mutant: a strict comparison, the row at actual_end in neither part
past_forecast_lt(fc, end) == LET p(r) == r.ds < end IN SelectSeq(fc, p)

past_forecast(fc, end) == LET p(r) == r.ds <= end IN SelectSeq(fc, p)
future_forecast(fc, end) == LET f(r) == r.ds > end IN SelectSeq(fc, f)

Assign(fc, label) ==
    [i \in 1..Len(fc) |-> [ds |-> fc[i].ds, yhat1 |-> fc[i].yhat1, Type |-> label]]

\* mutant: the parts concatenated the other way round
Concat_swapped(past, future) ==
    Assign(future, FutureLabel) \o Assign(past, PastLabel)

Concat(past, future) == Assign(past, PastLabel) \o Assign(future, FutureLabel)

Combined(fc, end) == Concat(past_forecast(fc, end), future_forecast(fc, end))

-----------------------------------------------------------------------------
(* The script *)

Init ==
    /\ selected_site = websites[1]
    /\ selected_days = 1
    /\ pc = "start"
    /\ cache = [k \in {} |-> <<>>]
    /\ raw = <<>>
    /\ data = <<>>
    /\ data_small = <<>>
    /\ forecast = <<>>
    /\ combined = <<>>
    /\ messages = <<>>
    /\ uncaught = "none"
    /\ stages = <<>>
    /\ provider_called = FALSE
    /\ fetch_ok = [k \in Sites |-> 0]
    /\ had_series = FALSE
    /\ only_period = FALSE

\* an exception nobody catches ends the script run (the script has no try)
Raise(e) ==
    /\ pc' = "crashed"
    /\ uncaught' = e

\* line 43: human_delay(1, 2)
HumanDelay ==
    /\ pc = "start"
    /\ pc' = "delayed"
    /\ stages' = Append(stages, "delay")
    /\ UNCHANGED <<selected_site, selected_days, cache, raw, data, data_small,
                   forecast, combined, messages, uncaught, provider_called,
                   fetch_ok, had_series, only_period>>

\* line 44 with lines 32-40: get_trend_data(selected_site), entered at `at`
GetTrendDataAt(at) ==
    /\ pc \in at
    /\ stages' = Append(stages, "fetch")
    /\ \/ \* cache hit: the stored frame, no provider call
          /\ selected_site \in DOMAIN cache
          /\ data' = cache[selected_site]
          /\ pc' = "fetched"
          /\ UNCHANGED <<cache, raw, uncaught, provider_called, fetch_ok>>
       \/ \* cache miss, the provider answers with observations
          /\ selected_site \notin DOMAIN cache
          /\ \E first \in FirstHours, gap \in 0..MaxGap :
                /\ raw' = RawOf(first, gap)
                /\ data' = Resampled(raw')
          /\ cache' = CacheStore(cache, selected_site, data')
          /\ fetch_ok' = [fetch_ok EXCEPT ![selected_site] = @ + 1]
          /\ provider_called' = TRUE
          /\ pc' = "fetched"
          /\ UNCHANGED uncaught
       \/ \* cache miss, the provider answers with an empty frame: line 38
          \* finds no 'ds' and 'y' columns
          /\ selected_site \notin DOMAIN cache
          /\ provider_called' = TRUE
          /\ Raise("KeyError")
          /\ UNCHANGED <<cache, raw, data, fetch_ok>>
       \/ \* cache miss, the provider call raises (throttled, network)
          /\ selected_site \notin DOMAIN cache
          /\ provider_called' = TRUE
          /\ Raise("ResponseError")
          /\ UNCHANGED <<cache, raw, data, fetch_ok>>
    /\ UNCHANGED <<selected_site, selected_days, data_small, forecast,
                   combined, messages, had_series, only_period>>

\* mutant: the fetch not waiting for the delay
GetTrendData_undelayed == GetTrendDataAt({"start", "delayed"})

GetTrendData == GetTrendDataAt({"delayed"})

\* lines 46-55: the historical chart, the window and its sample
FilterTrainingData ==
    /\ pc = "fetched"
    /\ data_small' = SelectWindow(data, selected_days)
    /\ pc' = "windowed"
    /\ stages' = Append(stages, "window")
    /\ UNCHANGED <<selected_site, selected_days, cache, raw, data, forecast,
                   combined, messages, uncaught, provider_called, fetch_ok,
                   had_series, only_period>>

\* lines 58-63: model.fit
Train ==
    /\ pc = "windowed"
    /\ stages' = Append(stages, "fit")
    /\ \/ /\ pc' = "fitted"
          /\ messages' = messages \o <<"info: training", "success: trained">>
          /\ UNCHANGED uncaught
       \/ \* the library rejects or fails on the window
          /\ messages' = Append(messages, "info: training")
          /\ Raise("FitError")
    /\ UNCHANGED <<selected_site, selected_days, cache, raw, data, data_small,
                   forecast, combined, provider_called, fetch_ok, had_series,
                   only_period>>

\* lines 66-71: make_future_dataframe and predict
Forecast ==
    /\ pc = "fitted"
    /\ \E nh \in HistoricChoices(data_small), yhat \in YhatLevels :
          forecast' = Predict(data_small, nh, yhat)
    /\ pc' = "predicted"
    /\ stages' = Append(stages, "predict")
    /\ UNCHANGED <<selected_site, selected_days, cache, raw, data, data_small,
                   combined, messages, uncaught, provider_called, fetch_ok,
                   had_series, only_period>>

\* lines 74-83: past and future
SeparatePastFuture ==
    /\ pc = "predicted"
    /\ combined' = Combined(forecast, actual_end(data_small))
    /\ pc' = "partitioned"
    /\ stages' = Append(stages, "partition")
    /\ UNCHANGED <<selected_site, selected_days, cache, raw, data, data_small,
                   forecast, messages, uncaught, provider_called, fetch_ok,
                   had_series, only_period>>

\* lines 86-105: table, chart, components; the script ends
Display ==
    /\ pc = "partitioned"
    /\ pc' = "done"
    /\ UNCHANGED <<selected_site, selected_days, cache, raw, data, data_small,
                   forecast, combined, messages, uncaught, stages,
                   provider_called, fetch_ok, had_series, only_period>>

\* A widget interaction (lines 20, 28) after a run has ended: Streamlit runs
\* the script again from the top with the new selection; only the cache
\* survives.
Rerun ==
    /\ pc \in {"done", "crashed"}
    /\ \E site \in Sites, days \in training_options :
          /\ selected_site' = site
          /\ selected_days' = days
          /\ had_series' = (site \in DOMAIN cache)
          /\ only_period' = /\ site = selected_site
                            /\ days # selected_days
                            /\ data # <<>>
    /\ pc' = "start"
    /\ raw' = <<>>
    /\ data' = <<>>
    /\ data_small' = <<>>
    /\ forecast' = <<>>
    /\ combined' = <<>>
    /\ messages' = <<>>
    /\ uncaught' = "none"
    /\ stages' = <<>>
    /\ provider_called' = FALSE
    /\ UNCHANGED <<cache, fetch_ok>>

Next ==
    \/ HumanDelay
    \/ GetTrendData
    \/ FilterTrainingData
    \/ Train
    \/ Forecast
    \/ SeparatePastFuture
    \/ Display
    \/ Rerun

Spec == Init /\ [][Next]_vars

-----------------------------------------------------------------------------
(* Properties *)

Partitioned == pc \in {"partitioned", "done"}
StageOrder == <<"delay", "fetch", "window", "fit", "predict", "partition">>

\* rows of the combined forecast carrying a label
Tagged(label) == LET t(r) == r.Type = label IN SelectSeq(combined, t)
DsSet(df) == {df[i].ds : i \in 1..Len(df)}
\* the hours from the provider's first to its last observation
RawHours == (FloorH(MaxOf(Column(raw, "date")))
               - FloorH(MinOf(Column(raw, "date")))) \div Hour + 1
HourlyDense(df) == \A i \in 1..(Len(df) - 1) : df[i + 1].ds - df[i].ds = Hour

\* C1: every row of the combined forecast is tagged Past exactly when its
\* timestamp is <= the last timestamp of the training window and Future
\* otherwise, and every forecast row carries one tag: it occurs once.
C1_SegmentIffTimestamp ==
    Partitioned =>
        LET end == MaxOf(Column(data_small, "ds"))
        IN  /\ \A i \in 1..Len(combined) :
                 /\ combined[i].Type \in {PastLabel, FutureLabel}
                 /\ combined[i].Type = PastLabel <=> combined[i].ds <= end
            /\ Len(combined) = Len(forecast)
            /\ DsSet(combined) = DsSet(forecast)
            /\ Cardinality(DsSet(forecast)) = Len(forecast)

C1_Witness ==
    /\ Partitioned
    /\ Tagged(PastLabel) # <<>>
    /\ Tagged(FutureLabel) # <<>>
    /\ combined[Len(Tagged(PastLabel))].ds = MaxOf(Column(data_small, "ds"))

\* C2: the combined sequence holds each forecast row once, |Past| + |Future|
\* = |forecast|, all Past rows come before all Future rows, and no Past
\* timestamp is later than a Future timestamp.
C2_PartitionComplete ==
    Partitioned =>
        LET past == Tagged(PastLabel)
            future == Tagged(FutureLabel)
        IN  /\ Len(past) + Len(future) = Len(forecast)
            /\ Len(combined) = Len(forecast)
            /\ {<<combined[i].ds, combined[i].yhat1>> : i \in 1..Len(combined)}
                 = {<<forecast[i].ds, forecast[i].yhat1>> : i \in 1..Len(forecast)}
            /\ Cardinality(DsSet(combined)) = Len(combined)
            /\ \A i \in 1..(Len(combined) - 1) :
                 combined[i].Type = FutureLabel => combined[i + 1].Type = FutureLabel
            /\ (past # <<>> /\ future # <<>>) =>
                 MaxOf(Column(past, "ds")) <= MinOf(Column(future, "ds"))

C2_Witness ==
    /\ pc = "partitioned"
    /\ Len(Tagged(PastLabel)) = Len(data_small)
    /\ Len(Tagged(FutureLabel)) = periods
    /\ Len(data_small) > 1

\* C3: exactly 48 rows are tagged Future, and they are the 48 consecutive
\* hourly timestamps right after the last timestamp of the training window.
C3_FutureIsHorizon ==
    Partitioned =>
        LET future == Tagged(FutureLabel)
            end == MaxOf(Column(data_small, "ds"))
        IN  /\ Len(future) = 48
            /\ \A i \in 1..Len(future) : future[i].ds = end + i * Hour

C3_Witness ==
    /\ Partitioned
    /\ selected_days = 3
    /\ Len(Tagged(FutureLabel)) = 48
    /\ Len(data_small) = 3 * 24 + 1

\* C4: every point of the training window is at or after max(ds) - days*24h,
\* every point of the series at or after it is in the window, and the window
\* is a contiguous suffix of the series in its order (the whole series when
\* the history is shorter than the period).
C4_WindowContainment ==
    data_small # <<>> =>
        LET cut == MaxOf(Column(data, "ds")) - selected_days * 24 * Hour
            skip == Len(data) - Len(data_small)
        IN  /\ skip >= 0
            /\ \A i \in 1..Len(data_small) :
                 /\ data_small[i].ds >= cut
                 /\ data_small[i] = data[skip + i]
            /\ \A j \in 1..skip : data[j].ds < cut
            /\ data[1].ds >= cut => data_small = data

C4_Witness ==
    /\ pc = "windowed"
    /\ Len(data_small) < Len(data)
    /\ data_small[1].ds = MaxOf(Column(data, "ds")) - selected_days * 24 * Hour

C8_AtMostOneFetchPerKeyword ==
    /\ \A k \in Sites : fetch_ok[k] <= 1
    /\ \A k \in Sites : fetch_ok[k] = 1 <=> k \in DOMAIN cache
    /\ had_series => ~provider_called
    /\ (had_series /\ data # <<>>) => data = cache[selected_site]
    /\ only_period => ~provider_called

C8_Witness ==
    /\ pc = "done"
    /\ only_period
    /\ had_series
    /\ ~provider_called
    /\ fetch_ok[selected_site] = 1
    /\ \E k \in Sites : k # selected_site /\ fetch_ok[k] = 1

\* C9 as stated: a failed fetch or a failed training is caught and shown as
\* a message; no error leaves the script unhandled.
C9_ErrorsHandled ==
    /\ uncaught = "none"
    /\ pc # "crashed"

\* C10: the delay is over before get_trend_data is entered, so the provider
\* is never called without a delay earlier in the run, and the stages of a
\* run come in the order delay, fetch, window, training, prediction,
\* partition.
C10_DelayFirstStagesInOrder ==
    /\ Len(stages) <= Len(StageOrder)
    /\ \A i \in 1..Len(stages) : stages[i] = StageOrder[i]
    /\ provider_called => (Len(stages) >= 2 /\ stages[1] = "delay")

C10_Witness ==
    /\ pc = "done"
    /\ provider_called
    /\ stages = StageOrder

====
